---------------------------- MODULE Spec2Model ----------------------------
(***************************************************************************)
(* Model of src/server.js, a per-tenant finance ledger API.  The file      *)
(* holds two variants of the server:                                       *)
(*   - lines 1-214: the SQLite variant (async handlers, every `await       *)
(*     db.*` is one store step; other requests may run between two steps); *)
(*   - lines 217-391: the flat-file variant (db.json, synchronous          *)
(*     handlers, each one read-whole-file / change / write-whole-file).    *)
(*                                                                         *)
(* Money is kept in hundredths (cents) as integers: base 1000.00 is        *)
(* 100000.  Rates are whole percents.  Math.round(x*100)/100 on a value    *)
(* x in currency units is MathRound on the value in hundredths; binary     *)
(* floating-point representation error is not modelled.                    *)
(*                                                                         *)
(* A JavaScript object is a function from its present keys to values; a    *)
(* key that is absent (undefined) is simply not in the DOMAIN.  The string *)
(* "null" stands for a JSON null in a text field.                          *)
(*                                                                         *)
(* Of a row, the columns the handlers compute with or select on are kept:  *)
(* user_id, date, type, category, base, tax, total (transactions) and      *)
(* user_id, date, employee, kind, amount, delta (debts).  The optional     *)
(* text columns employee/notes of a transaction and notes of a debt are    *)
(* copied through by the handlers and are left out.                        *)
(*                                                                         *)
(* A handler whose awaited store call rejects has no try/catch (only       *)
(* /auth/register has one).  What happens next is the framework's doing:   *)
(* Express 5 forwards the rejection to its error handler (answer 500),     *)
(* Express 4 does not observe it and the request is never answered.  The   *)
(* source does not pin the version, so both outcomes are modelled.         *)
(***************************************************************************)
EXTENDS Integers, FiniteSets, Sequences, TLC

VARIABLES
  users,         \* SQLite table users: id -> [email, password]
  userSeq,       \* sqlite_sequence of users
  tokens,        \* the user ids for which a token has been issued
  ticks,         \* the clock of datetime('now'): see CreatedAt
  settings,      \* SQLite table settings: user_id -> [tax_income, tax_expense]
  transactions,  \* SQLite table transactions: id -> row
  txSeq,         \* sqlite_sequence of transactions (AUTOINCREMENT high-water mark)
  debts,         \* SQLite table debts: id -> row
  debtSeq,       \* sqlite_sequence of debts
  reqs,          \* request slots: slot -> [op, pc, uid, id, body, vals, resp]
  issued,        \* number of requests received so far
  fdb,           \* flat-file variant: the content of db.json
  fuuid,         \* flat-file variant: number of uuid() values drawn so far
  fresp          \* flat-file variant: the last request and its response

flatVars == <<fdb, fuuid, fresp>>

userVars == <<users, userSeq, tokens>>

vars == <<users, userSeq, tokens, ticks, settings, transactions, txSeq, debts, debtSeq, reqs, issued, fdb, fuuid, fresp>>

---------------------------------------------------------------------------
(* Bounds of the model *)

\* number of requests the server receives in one run
MaxOps == 3

\* the largest base, in hundredths, of the tax calculations compared
MaxBase == 20

\* the requests that can be in flight at the same time
Slots == {1, 2}
\* the tenants (users.id of registered users)
Tenants == {1, 2}
\* their e-mail addresses
TenantEmail == <<"a@x", "b@x">>

---------------------------------------------------------------------------
(* Program constants *)

\* settings.tax_income REAL DEFAULT 15.0
DefaultTaxIncome == 15
\* settings.tax_expense REAL DEFAULT 15.0
DefaultTaxExpense == 15

---------------------------------------------------------------------------
(* JavaScript objects *)

Empty == [k \in {} |-> 0]

Has(o, k) == k \in DOMAIN o

\* {...t, ...body}
Spread(t, body) ==
  [k \in DOMAIN t \cup DOMAIN body |-> IF k \in DOMAIN body THEN body[k] ELSE t[k]]

\* !x for a text field: undefined, null and "" are falsy
FalsyText(o, k) == ~Has(o, k) \/ o[k] = "null" \/ o[k] = ""

\* Number(x || 0) for a numeric field
NumberOrZero(o, k) == IF Has(o, k) THEN o[k] ELSE 0

\* Math.round(num/den) for den > 0: the nearest integer, halves towards +infinity
MathRound(num, den) == (2 * num + den) \div (2 * den)

---------------------------------------------------------------------------
(* Tax calculation, lines 139-141 and 153-156 *)

\* (type==='income' ? (s.tax_income||0) : (s.tax_expense||0)), in percent
RateOf(type, s) == IF type = "income" THEN s.tax_income ELSE s.tax_expense

\* Math.round(base*rate*100)/100 with rate = percent/100, in hundredths
CalcTax(base, pct) == MathRound(base * pct, 100)

\* Math.round((base+tax)*100)/100, in hundredths
CalcTotal(base, tax) == MathRound(base + tax, 1)

---------------------------------------------------------------------------
(* Request slots and responses *)

NoResp == [status |-> "NONE", row |-> Empty]

Idle == [op |-> "none", pc |-> "idle", uid |-> 0, id |-> 0,
         body |-> Empty, vals |-> Empty, resp |-> NoResp]

\* res.json(x) / res.status(n).json({error})
Respond(r, status, row) ==
  [r EXCEPT !.pc = "done", !.vals = Empty, !.resp = [status |-> status, row |-> row]]

\* a slot whose request is over (answered, or never to be answered)
Over(q) == reqs[q].pc \in {"idle", "done", "hung"}

\* a request arrives: it takes the first slot whose request is over
Arrive(p) ==
  /\ Over(p)
  /\ \A q \in Slots : q < p => ~Over(q)
  /\ issued < MaxOps
  /\ issued' = issued + 1
  /\ UNCHANGED <<flatVars, userVars, ticks>>

\* the ids a request can name: the rows inserted so far and the next one
Ids(seq) == 1..(seq + 1)

\* an awaited db call rejects and the handler has no try/catch: the async
\* handler's promise rejects
Reject(r) == [r EXCEPT !.pc = "rejected"]

\* SELECT * FROM <table> WHERE id=?   (undefined when there is no such row)
SelectById(table, id) == IF id \in DOMAIN table THEN table[id] ELSE Empty

\* faulty variant: the SELECT without its user_id clause
SelectAnyOwner(table, id, uid) == SelectById(table, id)

\* SELECT * FROM <table> WHERE id=? AND user_id=?
SelectOwned(table, id, uid) ==
  IF id \in DOMAIN table /\ table[id].user_id = uid THEN table[id] ELSE Empty

\* faulty variant: the DELETE without its user_id clause
DeleteAnyOwner(table, id, uid) ==
  [i \in DOMAIN table \ {id} |-> table[i]]

\* DELETE FROM <table> WHERE id=? AND user_id=?
DeleteOwned(table, id, uid) ==
  [i \in {j \in DOMAIN table : ~(j = id /\ table[j].user_id = uid)} |-> table[i]]

---------------------------------------------------------------------------
(* Inputs *)

\* request bodies of POST /transactions
PostTxBodies ==
  { [date |-> "d1", type |-> "income",  category |-> "c1", base |-> 100000],
    [date |-> "d1", type |-> "expense", category |-> "c1", base |-> 100000],
    [date |-> "d1", type |-> "bogus",   category |-> "c1", base |-> 100000],
    [type |-> "income", category |-> "c1", base |-> 100000] }

\* request bodies of PUT /transactions/:id
PutTxBodies ==
  { [base |-> 200000],
    [date |-> "d2"],
    [tax |-> 999, total |-> 999],
    [type |-> "expense", tax |-> 7, total |-> 7],
    [type |-> "bogus"] }

\* request bodies of POST /debts
PostDebtBodies ==
  { [date |-> "d1", employee |-> "A", kind |-> "advance", amount |-> 10000],
    [date |-> "d1", employee |-> "A", kind |-> "bogus",   amount |-> 10000],
    [date |-> "d1", employee |-> "A", kind |-> "repay"] }

\* request bodies of PUT /debts/:id
PutDebtBodies ==
  { [kind |-> "repay"],
    [amount |-> 4000],
    [delta |-> 999],
    [kind |-> "bogus"] }

\* request bodies of PUT /settings
PutSettingsBodies ==
  { [tax_income |-> 10], [tax_expense |-> 5] }

---------------------------------------------------------------------------
(* Schema constraints, lines 42-55 *)

\* transactions: date, category NOT NULL; type CHECK(type IN ('income','expense'))
TxConstraintsOk(v) ==
  /\ Has(v, "date") /\ v.date # "null"
  /\ Has(v, "category") /\ v.category # "null"
  /\ Has(v, "type") /\ v.type \in {"income", "expense"}

TxRow(uid, v, base, tax, total) ==
  [user_id |-> uid, date |-> v.date, type |-> v.type, category |-> v.category,
   base |-> base, tax |-> tax, total |-> total]

---------------------------------------------------------------------------
(* PUT /settings, lines 122-128 *)

\* UPDATE settings SET tax_income=COALESCE(?,tax_income), tax_expense=COALESCE(?,tax_expense)
\*   WHERE user_id=?
UpdateSettings(tbl, uid, body) ==
  IF uid \in DOMAIN tbl
  THEN [tbl EXCEPT ![uid] =
          [tax_income  |-> IF Has(body, "tax_income") THEN body.tax_income ELSE @.tax_income,
           tax_expense |-> IF Has(body, "tax_expense") THEN body.tax_expense ELSE @.tax_expense]]
  ELSE tbl

PutSettingsUpdate(p, uid, body) ==
  /\ Arrive(p)
  /\ settings' = UpdateSettings(settings, uid, body)
  /\ reqs' = [reqs EXCEPT ![p] = [Idle EXCEPT !.op = "putSettings", !.pc = "reread",
                                              !.uid = uid, !.body = body]]
  /\ UNCHANGED <<transactions, txSeq, debts, debtSeq>>

PutSettingsReread(p) ==
  /\ reqs[p].op = "putSettings" /\ reqs[p].pc = "reread"
  /\ reqs' = [reqs EXCEPT ![p] = Respond(@, "OK", SelectById(settings, @.uid))]
  /\ UNCHANGED <<settings, transactions, txSeq, debts, debtSeq, issued, flatVars, userVars, ticks>>

---------------------------------------------------------------------------
(* POST /transactions, lines 135-146 *)

\* if(!date || !type || !category || base==null)
PostTxMissing(body) ==
  \/ FalsyText(body, "date") \/ FalsyText(body, "type")
  \/ FalsyText(body, "category") \/ ~Has(body, "base")

\* lines 139-141: the values bound to the INSERT
PostTxValues(body, s) ==
  LET tax == CalcTax(NumberOrZero(body, "base"), RateOf(body.type, s))
  IN  [date |-> body.date, type |-> body.type, category |-> body.category,
       base |-> body.base, tax |-> tax,
       total |-> CalcTotal(NumberOrZero(body, "base"), tax)]

\* lines 136-141: validation, then the read of the tenant's settings
PostTxReadSettings(p, uid, body) ==
  /\ Arrive(p)
  /\ LET r == [Idle EXCEPT !.op = "postTx", !.uid = uid, !.body = body]
     IN  reqs' = [reqs EXCEPT ![p] =
           IF PostTxMissing(body) THEN Respond(r, "MISSING_FIELD", Empty)
           ELSE IF uid \notin DOMAIN settings THEN Reject(r)
           ELSE [r EXCEPT !.pc = "insert", !.vals = PostTxValues(body, settings[uid])]]
  /\ UNCHANGED <<settings, transactions, txSeq, debts, debtSeq>>

\* lines 142-143: INSERT INTO transactions
PostTxInsert(p) ==
  /\ reqs[p].op = "postTx" /\ reqs[p].pc = "insert"
  /\ LET r == reqs[p]
         v == r.vals
     IN  IF TxConstraintsOk(v)
         THEN /\ txSeq' = txSeq + 1
              /\ transactions' = (txSeq + 1 :> TxRow(r.uid, v, v.base, v.tax, v.total)) @@ transactions
              /\ reqs' = [reqs EXCEPT ![p] = [r EXCEPT !.pc = "reread", !.id = txSeq + 1]]
         ELSE /\ reqs' = [reqs EXCEPT ![p] = Reject(r)]
              /\ UNCHANGED <<transactions, txSeq>>
  /\ UNCHANGED <<settings, debts, debtSeq, issued, flatVars, userVars, ticks>>

\* lines 144-145: SELECT * FROM transactions WHERE id=lastID; res.json(row)
PostTxReread(p) ==
  /\ reqs[p].op = "postTx" /\ reqs[p].pc = "reread"
  /\ reqs' = [reqs EXCEPT ![p] = Respond(@, "OK", SelectById(transactions, @.id))]
  /\ UNCHANGED <<settings, transactions, txSeq, debts, debtSeq, issued, flatVars, userVars, ticks>>

---------------------------------------------------------------------------
(* PUT /transactions/:id, lines 147-161 *)

\* lines 149-151: SELECT ... WHERE id=? AND user_id=?; 404 or newVals = {...t, ...req.body}
PutTxSelect(p, uid, id, body) ==
  /\ Arrive(p)
  /\ LET r == [Idle EXCEPT !.op = "putTx", !.uid = uid, !.id = id, !.body = body]
         t == SelectOwned(transactions, id, uid)
     IN  reqs' = [reqs EXCEPT ![p] =
           IF t = Empty THEN Respond(r, "NOT_FOUND", Empty)
           ELSE [r EXCEPT !.pc = "readSettings", !.vals = Spread(t, body)]]
  /\ UNCHANGED <<settings, transactions, txSeq, debts, debtSeq>>

\* faulty variant: tax and total are taken from the merged object, not recomputed
PutTxNotRederived(newVals, s) ==
  [newVals EXCEPT !.base = NumberOrZero(newVals, "base")]

\* faulty variant: tax and total recomputed at the rates of a new account
PutTxDefaultRate(newVals, s) ==
  LET base == NumberOrZero(newVals, "base")
      tax == CalcTax(base, IF newVals.type = "income" THEN DefaultTaxIncome ELSE DefaultTaxExpense)
  IN  [newVals EXCEPT !.base = base, !.tax = tax, !.total = CalcTotal(base, tax)]

\* lines 153-156: the derived values bound to the UPDATE
PutTxDerived(newVals, s) ==
  LET base == NumberOrZero(newVals, "base")
      tax == CalcTax(base, RateOf(newVals.type, s))
  IN  [newVals EXCEPT !.base = base, !.tax = tax, !.total = CalcTotal(base, tax)]

\* lines 152-156: SELECT tax_income,tax_expense FROM settings; compute tax and total
PutTxReadSettings(p) ==
  /\ reqs[p].op = "putTx" /\ reqs[p].pc = "readSettings"
  /\ LET r == reqs[p]
     IN  reqs' = [reqs EXCEPT ![p] =
           IF r.uid \notin DOMAIN settings THEN Reject(r)
           ELSE [r EXCEPT !.pc = "update", !.vals = PutTxDerived(r.vals, settings[r.uid])]]
  /\ UNCHANGED <<settings, transactions, txSeq, debts, debtSeq, issued, flatVars, userVars, ticks>>

\* faulty variant: a write that puts the row back when it is gone (INSERT OR
\* REPLACE instead of UPDATE)
UpsertTx(tbl, id, uid, v) ==
  (id :> TxRow(uid, v, v.base, v.tax, v.total)) @@ tbl

\* UPDATE transactions SET date=?,type=?,category=?,base=?,tax=?,total=? WHERE id=? AND user_id=?
UpdateTx(tbl, id, uid, v) ==
  IF id \in DOMAIN tbl /\ tbl[id].user_id = uid
  THEN [tbl EXCEPT ![id] = TxRow(@.user_id, v, v.base, v.tax, v.total)]
  ELSE tbl

\* lines 157-158
PutTxUpdate(p) ==
  /\ reqs[p].op = "putTx" /\ reqs[p].pc = "update"
  /\ LET r == reqs[p]
     IN  IF TxConstraintsOk(r.vals) \/ SelectOwned(transactions, r.id, r.uid) = Empty
         THEN /\ transactions' = UpdateTx(transactions, r.id, r.uid, r.vals)
              /\ reqs' = [reqs EXCEPT ![p] = [r EXCEPT !.pc = "reread"]]
         ELSE /\ reqs' = [reqs EXCEPT ![p] = Reject(r)]
              /\ UNCHANGED transactions
  /\ UNCHANGED <<settings, txSeq, debts, debtSeq, issued, flatVars, userVars, ticks>>

\* lines 159-160: SELECT * FROM transactions WHERE id=?; res.json(row)
PutTxReread(p) ==
  /\ reqs[p].op = "putTx" /\ reqs[p].pc = "reread"
  /\ reqs' = [reqs EXCEPT ![p] = Respond(@, "OK", SelectById(transactions, @.id))]
  /\ UNCHANGED <<settings, transactions, txSeq, debts, debtSeq, issued, flatVars, userVars, ticks>>

---------------------------------------------------------------------------
(* DELETE /transactions/:id, lines 162-165 *)

DeleteTx(p, uid, id) ==
  /\ Arrive(p)
  /\ transactions' = DeleteOwned(transactions, id, uid)
  /\ reqs' = [reqs EXCEPT ![p] =
       Respond([Idle EXCEPT !.op = "deleteTx", !.uid = uid, !.id = id], "OK", Empty)]
  /\ UNCHANGED <<settings, txSeq, debts, debtSeq>>

---------------------------------------------------------------------------
(* Schema constraints, lines 58-69 *)

\* debts: date, employee NOT NULL; kind CHECK(kind IN ('advance','repay'))
DebtConstraintsOk(v) ==
  /\ Has(v, "date") /\ v.date # "null"
  /\ Has(v, "employee") /\ v.employee # "null"
  /\ Has(v, "kind") /\ v.kind \in {"advance", "repay"}

DebtRow(uid, v, amount, delta) ==
  [user_id |-> uid, date |-> v.date, employee |-> v.employee, kind |-> v.kind,
   amount |-> amount, delta |-> delta]

\* faulty variant: delta without the sign of the kind
DebtDeltaUnsigned(x) ==
  [x EXCEPT !.amount = NumberOrZero(x, "amount"), !.delta = NumberOrZero(x, "amount")]

\* const amt = Number(x.amount||0); const delta = (x.kind==='advance'? +amt : -amt)
DebtDerived(x) ==
  LET amt == NumberOrZero(x, "amount")
  IN  [x EXCEPT !.amount = amt, !.delta = IF x.kind = "advance" THEN amt ELSE -amt]

---------------------------------------------------------------------------
(* POST /debts, lines 172-180 *)

\* if(!date||!employee||!kind||amount==null)
PostDebtMissing(body) ==
  \/ FalsyText(body, "date") \/ FalsyText(body, "employee")
  \/ FalsyText(body, "kind") \/ ~Has(body, "amount")

\* lines 174-177: validation, amt and delta, INSERT INTO debts
PostDebtInsert(p, uid, body) ==
  /\ Arrive(p)
  /\ LET r == [Idle EXCEPT !.op = "postDebt", !.uid = uid, !.body = body]
         v == DebtDerived(body @@ [delta |-> 0])
     IN  IF PostDebtMissing(body)
         THEN /\ reqs' = [reqs EXCEPT ![p] = Respond(r, "MISSING_FIELD", Empty)]
              /\ UNCHANGED <<debts, debtSeq>>
         ELSE IF DebtConstraintsOk(v)
         THEN /\ debtSeq' = debtSeq + 1
              /\ debts' = (debtSeq + 1 :> DebtRow(uid, v, v.amount, v.delta)) @@ debts
              /\ reqs' = [reqs EXCEPT ![p] = [r EXCEPT !.pc = "reread", !.id = debtSeq + 1]]
         ELSE /\ reqs' = [reqs EXCEPT ![p] = Reject(r)]
              /\ UNCHANGED <<debts, debtSeq>>
  /\ UNCHANGED <<settings, transactions, txSeq>>

\* lines 178-179: SELECT * FROM debts WHERE id=lastID; res.json(row)
PostDebtReread(p) ==
  /\ reqs[p].op = "postDebt" /\ reqs[p].pc = "reread"
  /\ reqs' = [reqs EXCEPT ![p] = Respond(@, "OK", SelectById(debts, @.id))]
  /\ UNCHANGED <<settings, transactions, txSeq, debts, debtSeq, issued, flatVars, userVars, ticks>>

---------------------------------------------------------------------------
(* PUT /debts/:id, lines 181-191 *)

\* lines 183-186: SELECT ... WHERE id=? AND user_id=?; 404 or newVals, amt, delta
PutDebtSelect(p, uid, id, body) ==
  /\ Arrive(p)
  /\ LET r == [Idle EXCEPT !.op = "putDebt", !.uid = uid, !.id = id, !.body = body]
         d == SelectOwned(debts, id, uid)
     IN  reqs' = [reqs EXCEPT ![p] =
           IF d = Empty THEN Respond(r, "NOT_FOUND", Empty)
           ELSE [r EXCEPT !.pc = "update", !.vals = DebtDerived(Spread(d, body))]]
  /\ UNCHANGED <<settings, transactions, txSeq, debts, debtSeq>>

\* UPDATE debts SET date=?,employee=?,kind=?,amount=?,delta=? WHERE id=? AND user_id=?
UpdateDebt(tbl, id, uid, v) ==
  IF id \in DOMAIN tbl /\ tbl[id].user_id = uid
  THEN [tbl EXCEPT ![id] = DebtRow(@.user_id, v, v.amount, v.delta)]
  ELSE tbl

\* lines 187-188
PutDebtUpdate(p) ==
  /\ reqs[p].op = "putDebt" /\ reqs[p].pc = "update"
  /\ LET r == reqs[p]
     IN  IF DebtConstraintsOk(r.vals) \/ SelectOwned(debts, r.id, r.uid) = Empty
         THEN /\ debts' = UpdateDebt(debts, r.id, r.uid, r.vals)
              /\ reqs' = [reqs EXCEPT ![p] = [r EXCEPT !.pc = "reread"]]
         ELSE /\ reqs' = [reqs EXCEPT ![p] = Reject(r)]
              /\ UNCHANGED debts
  /\ UNCHANGED <<settings, transactions, txSeq, debtSeq, issued, flatVars, userVars, ticks>>

\* lines 189-190: SELECT * FROM debts WHERE id=?; res.json(row)
PutDebtReread(p) ==
  /\ reqs[p].op = "putDebt" /\ reqs[p].pc = "reread"
  /\ reqs' = [reqs EXCEPT ![p] = Respond(@, "OK", SelectById(debts, @.id))]
  /\ UNCHANGED <<settings, transactions, txSeq, debts, debtSeq, issued, flatVars, userVars, ticks>>

---------------------------------------------------------------------------
(* DELETE /debts/:id, lines 192-195 *)

DeleteDebt(p, uid, id) ==
  /\ Arrive(p)
  /\ debts' = DeleteOwned(debts, id, uid)
  /\ reqs' = [reqs EXCEPT ![p] =
       Respond([Idle EXCEPT !.op = "deleteDebt", !.uid = uid, !.id = id], "OK", Empty)]
  /\ UNCHANGED <<settings, transactions, txSeq, debtSeq>>

---------------------------------------------------------------------------
(* POST /auth/register, lines 87-100, and POST /auth/login, lines 102-109 *)

\* request bodies of POST /auth/register
RegisterBodies ==
  { [email |-> "c@x", password |-> "pw"],
    [email |-> "C@x", password |-> "pw"],
    [email |-> "c@x"] }

\* request bodies of POST /auth/login
LoginBodies ==
  { [email |-> "C@x", password |-> "pw"],
    [email |-> "c@x", password |-> "bad"] }

\* email.trim().toLowerCase(), on the addresses used
NormalizeEmail(e) == IF e = "C@x" THEN "c@x" ELSE e

\* SELECT * FROM users WHERE email=?   (0 when there is no such row)
UserIdByEmail(e) ==
  IF \E i \in DOMAIN users : users[i].email = e
  THEN CHOOSE i \in DOMAIN users : users[i].email = e
  ELSE 0

\* INSERT INTO settings(user_id) VALUES (?): every other column takes its default
DefaultSettings == [tax_income |-> DefaultTaxIncome, tax_expense |-> DefaultTaxExpense]

\* lines 88-90: validation, then await bcrypt.hash
RegisterHash(p, body) ==
  /\ Arrive(p)
  /\ LET r == [Idle EXCEPT !.op = "register", !.body = body]
     IN  reqs' = [reqs EXCEPT ![p] =
           IF FalsyText(body, "email") \/ FalsyText(body, "password")
           THEN Respond(r, "MISSING_FIELD", Empty)
           ELSE [r EXCEPT !.pc = "insertUser"]]
  /\ UNCHANGED <<settings, transactions, txSeq, debts, debtSeq>>

\* line 92: INSERT INTO users; email is UNIQUE (catch: 409 EMAIL_IN_USE)
RegisterInsertUser(p) ==
  /\ reqs[p].op = "register" /\ reqs[p].pc = "insertUser"
  /\ LET r == reqs[p]
         e == NormalizeEmail(r.body.email)
     IN  IF UserIdByEmail(e) # 0
         THEN /\ reqs' = [reqs EXCEPT ![p] = Respond(r, "EMAIL_IN_USE", Empty)]
              /\ UNCHANGED <<users, userSeq>>
         ELSE /\ userSeq' = userSeq + 1
              /\ users' = (userSeq + 1 :> [email |-> e, password |-> r.body.password]) @@ users
              /\ reqs' = [reqs EXCEPT ![p] = [r EXCEPT !.pc = "insertSettings", !.id = userSeq + 1]]
  /\ UNCHANGED <<tokens, ticks, settings, transactions, txSeq, debts, debtSeq, issued, flatVars>>

\* line 93: INSERT INTO settings(user_id) VALUES (lastID); user_id is the
\* PRIMARY KEY (catch: 500 REG_FAILED)
RegisterInsertSettings(p) ==
  /\ reqs[p].op = "register" /\ reqs[p].pc = "insertSettings"
  /\ LET r == reqs[p]
     IN  IF r.id \in DOMAIN settings
         THEN /\ reqs' = [reqs EXCEPT ![p] = Respond(r, "REG_FAILED", Empty)]
              /\ UNCHANGED settings
         ELSE /\ settings' = (r.id :> DefaultSettings) @@ settings
              /\ reqs' = [reqs EXCEPT ![p] = [r EXCEPT !.pc = "select"]]
  /\ UNCHANGED <<transactions, txSeq, debts, debtSeq, issued, flatVars, userVars, ticks>>

\* line 93 when the store call rejects for a reason of the store itself
\* (database busy, disk full, I/O error): lines 96-98 answer 500 REG_FAILED;
\* the users row of line 92 stays, there is no transaction to roll back
RegisterInsertSettingsFails(p) ==
  /\ reqs[p].op = "register" /\ reqs[p].pc = "insertSettings"
  /\ reqs' = [reqs EXCEPT ![p] = Respond(@, "REG_FAILED", Empty)]
  /\ UNCHANGED <<settings, transactions, txSeq, debts, debtSeq, issued, flatVars, userVars, ticks>>

\* lines 94-95: SELECT id,email FROM users WHERE id=lastID; the token is issued
RegisterSelect(p) ==
  /\ reqs[p].op = "register" /\ reqs[p].pc = "select"
  /\ LET r == reqs[p]
     IN  /\ reqs' = [reqs EXCEPT ![p] =
              Respond(r, "OK", [id |-> r.id, email |-> SelectById(users, r.id).email])]
         /\ tokens' = tokens \cup {r.id}
  /\ UNCHANGED <<users, userSeq, ticks, settings, transactions, txSeq, debts, debtSeq, issued, flatVars>>

\* lines 103-105: SELECT * FROM users WHERE email=?; 401 when there is none
LoginSelect(p, body) ==
  /\ Arrive(p)
  /\ LET r == [Idle EXCEPT !.op = "login", !.body = body]
         id == UserIdByEmail(NormalizeEmail(body.email))
     IN  reqs' = [reqs EXCEPT ![p] =
           IF id = 0 THEN Respond(r, "INVALID_CREDENTIALS", Empty)
           ELSE [r EXCEPT !.pc = "compare", !.uid = id,
                          !.vals = [password |-> users[id].password]]]
  /\ UNCHANGED <<settings, transactions, txSeq, debts, debtSeq>>

\* lines 106-108: await bcrypt.compare(password, user.password_hash); the token
LoginCompare(p) ==
  /\ reqs[p].op = "login" /\ reqs[p].pc = "compare"
  /\ LET r == reqs[p]
     IN  IF r.body.password = r.vals.password
         THEN /\ reqs' = [reqs EXCEPT ![p] = Respond(r, "OK", [id |-> r.uid])]
              /\ tokens' = tokens \cup {r.uid}
         ELSE /\ reqs' = [reqs EXCEPT ![p] = Respond(r, "INVALID_CREDENTIALS", Empty)]
              /\ UNCHANGED tokens
  /\ UNCHANGED <<users, userSeq, ticks, settings, transactions, txSeq, debts, debtSeq, issued, flatVars>>

---------------------------------------------------------------------------
(* GET /transactions, lines 131-134, and GET /debts, lines 168-171 *)

\* created_at TEXT DEFAULT (datetime('now')) has a resolution of one second.
\* ticks holds the instants at which the second changed, each as the pair
\* <<txSeq, debtSeq>> of that instant; a row inserted after k of them has
\* created_at = k.
Tick ==
  /\ <<txSeq, debtSeq>> \notin ticks
  /\ ticks' = ticks \cup {<<txSeq, debtSeq>>}
  /\ UNCHANGED <<userVars, settings, transactions, txSeq, debts, debtSeq, reqs, issued, flatVars>>

\* transactions.created_at of row id
TxCreatedAt(id) == Cardinality({t \in ticks : t[1] < id})

\* debts.created_at of row id
DebtCreatedAt(id) == Cardinality({t \in ticks : t[2] < id})

\* the order of the TEXT values used as dates
DateRank(d) == CASE d = "d1" -> 1 [] d = "d2" -> 2 [] OTHER -> 0

\* the sequences that hold each id of ids once
Orderings(ids) ==
  {s \in [1..Cardinality(ids) -> ids] : \A i, j \in 1..Cardinality(ids) : s[i] = s[j] => i = j}

\* SELECT * FROM transactions WHERE user_id=? ORDER BY date DESC, created_at DESC:
\* every order of the tenant's rows that the two sort keys allow (SQL leaves
\* the order of rows with equal keys open)
TxListOrders(uid) ==
  LET ids == {i \in DOMAIN transactions : transactions[i].user_id = uid}
      Key(i) == <<DateRank(transactions[i].date), TxCreatedAt(i)>>
  IN  {s \in Orderings(ids) :
         \A i, j \in 1..Len(s) : i < j =>
           \/ Key(s[i])[1] > Key(s[j])[1]
           \/ Key(s[i])[1] = Key(s[j])[1] /\ Key(s[i])[2] >= Key(s[j])[2]}

\* SELECT * FROM debts WHERE user_id=? ORDER BY date ASC, created_at ASC
DebtListOrders(uid) ==
  LET ids == {i \in DOMAIN debts : debts[i].user_id = uid}
      Key(i) == <<DateRank(debts[i].date), DebtCreatedAt(i)>>
  IN  {s \in Orderings(ids) :
         \A i, j \in 1..Len(s) : i < j =>
           \/ Key(s[i])[1] < Key(s[j])[1]
           \/ Key(s[i])[1] = Key(s[j])[1] /\ Key(s[i])[2] <= Key(s[j])[2]}

\* GET /transactions: the answer is the ids of the rows in the order returned
ListTx(p, uid) ==
  /\ Arrive(p)
  /\ \E s \in TxListOrders(uid) :
       reqs' = [reqs EXCEPT ![p] = Respond([Idle EXCEPT !.op = "listTx", !.uid = uid], "OK", s)]
  /\ UNCHANGED <<settings, transactions, txSeq, debts, debtSeq>>

\* GET /debts
ListDebts(p, uid) ==
  /\ Arrive(p)
  /\ \E s \in DebtListOrders(uid) :
       reqs' = [reqs EXCEPT ![p] = Respond([Idle EXCEPT !.op = "listDebts", !.uid = uid], "OK", s)]
  /\ UNCHANGED <<settings, transactions, txSeq, debts, debtSeq>>

---------------------------------------------------------------------------
(* The framework around a handler *)

\* A rejected handler promise that a framework forwards to its error handler
\* is answered with 500 (Express 5).
ErrorResponse(p) ==
  /\ reqs[p].pc = "rejected"
  /\ reqs' = [reqs EXCEPT ![p] = Respond(@, "ERR500", Empty)]
  /\ UNCHANGED <<settings, transactions, txSeq, debts, debtSeq, issued, flatVars, userVars, ticks>>

\* A rejected handler promise that nothing handles (Express 4): the request
\* is never answered.
UnhandledRejection(p) ==
  /\ reqs[p].pc = "rejected"
  /\ reqs' = [reqs EXCEPT ![p].pc = "hung"]
  /\ UNCHANGED <<settings, transactions, txSeq, debts, debtSeq, issued, flatVars, userVars, ticks>>

---------------------------------------------------------------------------
(* The flat-file variant, lines 217-391.  Every handler is synchronous:    *)
(* readDB, the change and writeDB run without yielding, so each request is *)
(* one step.                                                               *)

\* ensureDB's initial document, lines 237-242 (the vocabularies that settings
\* starts with, paymentMethods and the like, are left out; no handler reads
\* them)
FlatInitDB == [transactions |-> <<>>, debts |-> <<>>, settings |-> Empty]

\* arr.findIndex(x => x.id === id): 0 stands for -1
FindIndex(seq, id) ==
  IF \E i \in 1..Len(seq) : seq[i].id = id
  THEN CHOOSE i \in 1..Len(seq) : seq[i].id = id /\ \A j \in 1..(i - 1) : seq[j].id # id
  ELSE 0

\* a flat-file request is received and answered in one step
FlatServe(op, uid, id, status, rows) ==
  /\ issued < MaxOps
  /\ issued' = issued + 1
  /\ fresp' = [op |-> op, uid |-> uid, id |-> id, status |-> status, rows |-> rows]
  /\ UNCHANGED <<settings, transactions, txSeq, debts, debtSeq, reqs, userVars, ticks>>

\* request bodies of the flat-file POST /transactions
FlatPostTxBodies ==
  { [date |-> "d1", type |-> "income",  amount |-> 10000, taxPercent |-> 15],
    [date |-> "d1", type |-> "expense", amount |-> 10000],
    [date |-> "d1", type |-> "bogus",   amount |-> 10000],
    [date |-> "d1", type |-> "income"] }

\* request bodies of the flat-file PUT /transactions/:id
FlatPutTxBodies ==
  { [amount |-> 20000], [date |-> "d2"], [id |-> 1, createdBy |-> 2] }

\* request bodies of the flat-file POST /debts
FlatPostDebtBodies ==
  { [date |-> "d1", employee |-> "A", kind |-> "advance", plus |-> 10000],
    [date |-> "d1", employee |-> "A", kind |-> "repay", minus |-> 4000],
    [date |-> "d1", kind |-> "advance", plus |-> 10000] }

\* request bodies of the flat-file PUT /debts/:id
FlatPutDebtBodies ==
  { [plus |-> 20000], [employee |-> ""] }

\* Number(t.amount) * Number(t.taxPercent||0) / 100, in hundredths (the
\* amounts used are multiples of 100, so the division is exact)
FlatTaxValue(t) == (NumberOrZero(t, "amount") * NumberOrZero(t, "taxPercent")) \div 100

\* (t.type==='expense'? -1:1) * (Number(t.amount)+taxValue)
FlatTotal(t, taxValue) ==
  (IF t.type = "expense" THEN -1 ELSE 1) * (NumberOrZero(t, "amount") + taxValue)

\* faulty variant: a copy of db.json that was read before the requests served
\* in between wrote theirs
ReadDBStale == FlatInitDB

\* readDB(), line 246: the content of db.json at the moment of the call.  A
\* handler runs from its readDB() to its writeDB(db) without an await, so no
\* other request is served in between.  (JSON.parse(JSON.stringify(x)) is x
\* for the strings and finite numbers the inputs hold.)
ReadDB == fdb

\* GET /transactions, lines 295-304 (no query filter)
FlatListTx(uid) ==
  /\ FlatServe("listTx", uid, 0, "OK", ReadDB.transactions)
  /\ UNCHANGED <<fdb, fuuid>>

\* POST /transactions, lines 306-321
FlatPostTx(uid, t) ==
  IF FalsyText(t, "date") \/ FalsyText(t, "type") \/ NumberOrZero(t, "amount") = 0
  THEN FlatServe("postTx", uid, 0, "MISSING_FIELD", <<>>) /\ UNCHANGED <<fdb, fuuid>>
  ELSE IF t.type \notin {"income", "expense"}
  THEN FlatServe("postTx", uid, 0, "INVALID_TYPE", <<>>) /\ UNCHANGED <<fdb, fuuid>>
  ELSE LET taxValue == FlatTaxValue(t)
           row == [id |-> fuuid + 1, date |-> t.date, type |-> t.type,
                   amount |-> t.amount, taxPercent |-> NumberOrZero(t, "taxPercent"),
                   taxValue |-> taxValue, total |-> FlatTotal(t, taxValue),
                   createdBy |-> uid]
       IN  /\ fuuid' = fuuid + 1
           /\ fdb' = [ReadDB EXCEPT !.transactions = Append(@, row)]
           /\ FlatServe("postTx", uid, fuuid + 1, "OK", <<row>>)

\* PUT /transactions/:id, lines 323-331
FlatPutTx(uid, id, body) ==
  LET idx == FindIndex(ReadDB.transactions, id)
  IN  IF idx = 0
      THEN FlatServe("putTx", uid, id, "NOT_FOUND", <<>>) /\ UNCHANGED <<fdb, fuuid>>
      ELSE LET t0 == Spread(ReadDB.transactions[idx], body)
               t == [t0 EXCEPT !.taxValue = FlatTaxValue(t0),
                               !.total = FlatTotal(t0, FlatTaxValue(t0))]
           IN  /\ fdb' = [ReadDB EXCEPT !.transactions[idx] = t]
               /\ FlatServe("putTx", uid, id, "OK", <<t>>)
               /\ UNCHANGED fuuid

\* DELETE /transactions/:id, lines 333-337
FlatDeleteTx(uid, id) ==
  LET Keep(x) == x.id # id
  IN  /\ fdb' = [ReadDB EXCEPT !.transactions = SelectSeq(@, Keep)]
      /\ FlatServe("deleteTx", uid, id, "OK", <<>>)
      /\ UNCHANGED fuuid

\* GET /debts, line 340
FlatListDebts(uid) ==
  /\ FlatServe("listDebts", uid, 0, "OK", ReadDB.debts)
  /\ UNCHANGED <<fdb, fuuid>>

\* POST /debts, lines 342-349
FlatPostDebt(uid, d) ==
  IF FalsyText(d, "date") \/ FalsyText(d, "employee") \/ FalsyText(d, "kind")
  THEN FlatServe("postDebt", uid, 0, "MISSING_FIELD", <<>>) /\ UNCHANGED <<fdb, fuuid>>
  ELSE LET row == [id |-> fuuid + 1, date |-> d.date, employee |-> d.employee,
                   kind |-> d.kind, plus |-> NumberOrZero(d, "plus"),
                   minus |-> NumberOrZero(d, "minus"), createdBy |-> uid]
       IN  /\ fuuid' = fuuid + 1
           /\ fdb' = [ReadDB EXCEPT !.debts = Append(@, row)]
           /\ FlatServe("postDebt", uid, fuuid + 1, "OK", <<row>>)

\* PUT /debts/:id, lines 351-356
FlatPutDebt(uid, id, body) ==
  LET idx == FindIndex(ReadDB.debts, id)
  IN  IF idx = 0
      THEN FlatServe("putDebt", uid, id, "NOT_FOUND", <<>>) /\ UNCHANGED <<fdb, fuuid>>
      ELSE LET d == Spread(ReadDB.debts[idx], body)
           IN  /\ fdb' = [ReadDB EXCEPT !.debts[idx] = d]
               /\ FlatServe("putDebt", uid, id, "OK", <<d>>)
               /\ UNCHANGED fuuid

\* DELETE /debts/:id, lines 358-362
FlatDeleteDebt(uid, id) ==
  LET Keep(x) == x.id # id
  IN  /\ fdb' = [ReadDB EXCEPT !.debts = SelectSeq(@, Keep)]
      /\ FlatServe("deleteDebt", uid, id, "OK", <<>>)
      /\ UNCHANGED fuuid

\* the literal that stands for a missing employee at line 368
NoEmployee == "-"

\* const k = d.employee || <the literal>
BalanceKey(d) == IF FalsyText(d, "employee") THEN NoEmployee ELSE d.employee

\* the position of key k in Object.values(map), 0 when map has no such key
BalanceIndex(map, k) ==
  IF \E i \in 1..Len(map) : map[i].employee = k
  THEN CHOOSE i \in 1..Len(map) : map[i].employee = k
  ELSE 0

\* lines 367-373: the loop over db.debts; map is kept as Object.values(map),
\* the entries in the order their keys were first set
RECURSIVE BalanceLoop(_, _)
BalanceLoop(ds, map) ==
  IF ds = <<>> THEN map
  ELSE LET d == Head(ds)
           k == BalanceKey(d)
           map1 == IF BalanceIndex(map, k) = 0
                   THEN Append(map, [employee |-> k, advances |-> 0, repays |-> 0, balance |-> 0])
                   ELSE map
           j == BalanceIndex(map1, k)
           adv == map1[j].advances + NumberOrZero(d, "plus")
           rep == map1[j].repays + NumberOrZero(d, "minus")
       IN  BalanceLoop(Tail(ds),
             [map1 EXCEPT ![j] = [employee |-> k, advances |-> adv, repays |-> rep,
                                  balance |-> adv - rep]])

\* GET /debts/balances, lines 364-375
FlatBalances(uid) ==
  /\ FlatServe("balances", uid, 0, "OK", BalanceLoop(ReadDB.debts, <<>>))
  /\ UNCHANGED <<fdb, fuuid>>

\* request bodies of the flat-file PUT /settings
FlatPutSettingsBodies ==
  { [tax_income |-> 10], [currency |-> "USD"] }

\* GET /settings, line 378: readDB().settings || {}
FlatGetSettings(uid) ==
  /\ FlatServe("getSettings", uid, 0, "OK", <<ReadDB.settings>>)
  /\ UNCHANGED <<fdb, fuuid>>

\* PUT /settings, lines 379-381: db.settings = {...db.settings, ...req.body}
FlatPutSettings(uid, body) ==
  LET s == Spread(ReadDB.settings, body)
  IN  /\ fdb' = [ReadDB EXCEPT !.settings = s]
      /\ FlatServe("putSettings", uid, 0, "OK", <<s>>)
      /\ UNCHANGED fuuid

\* GET /export, line 384
FlatExport(uid) ==
  /\ FlatServe("export", uid, 0, "OK", ReadDB.transactions \o ReadDB.debts)
  /\ UNCHANGED <<fdb, fuuid>>

\* POST /import, lines 385-389: writeDB(data)
FlatImport(uid, data) ==
  /\ fdb' = data
  /\ FlatServe("import", uid, 0, "OK", <<>>)
  /\ UNCHANGED fuuid

FlatNext ==
  \E u \in Tenants :
    \/ FlatListTx(u)
    \/ \E b \in FlatPostTxBodies : FlatPostTx(u, b)
    \/ \E i \in Ids(fuuid), b \in FlatPutTxBodies : FlatPutTx(u, i, b)
    \/ \E i \in Ids(fuuid) : FlatDeleteTx(u, i)
    \/ FlatListDebts(u)
    \/ \E b \in FlatPostDebtBodies : FlatPostDebt(u, b)
    \/ \E i \in Ids(fuuid), b \in FlatPutDebtBodies : FlatPutDebt(u, i, b)
    \/ \E i \in Ids(fuuid) : FlatDeleteDebt(u, i)
    \/ FlatBalances(u)
    \/ FlatGetSettings(u)
    \/ \E b \in FlatPutSettingsBodies : FlatPutSettings(u, b)
    \/ FlatExport(u)
    \/ FlatImport(u, FlatInitDB)

---------------------------------------------------------------------------
Init ==
  /\ users = [u \in Tenants |-> [email |-> TenantEmail[u], password |-> "pw"]]
  /\ userSeq = Cardinality(Tenants)
  /\ tokens = Tenants
  /\ ticks = {}
  /\ settings = [u \in Tenants |-> [tax_income |-> DefaultTaxIncome, tax_expense |-> DefaultTaxExpense]]
  /\ transactions = Empty
  /\ txSeq = 0
  /\ debts = Empty
  /\ debtSeq = 0
  /\ reqs = [p \in Slots |-> Idle]
  /\ issued = 0
  /\ fdb = FlatInitDB
  /\ fuuid = 0
  /\ fresp = [op |-> "none", uid |-> 0, id |-> 0, status |-> "NONE", rows |-> <<>>]

\* the steps of the request in slot p (SQLite variant)
Handlers(p) ==
  \/ \E u \in Tenants, b \in PutSettingsBodies : PutSettingsUpdate(p, u, b)
  \/ PutSettingsReread(p)
  \/ \E u \in Tenants, b \in PostTxBodies : PostTxReadSettings(p, u, b)
  \/ PostTxInsert(p)
  \/ PostTxReread(p)
  \/ \E u \in Tenants, i \in Ids(txSeq), b \in PutTxBodies : PutTxSelect(p, u, i, b)
  \/ PutTxReadSettings(p)
  \/ PutTxUpdate(p)
  \/ PutTxReread(p)
  \/ \E u \in Tenants, i \in Ids(txSeq) : DeleteTx(p, u, i)
  \/ \E u \in Tenants, b \in PostDebtBodies : PostDebtInsert(p, u, b)
  \/ PostDebtReread(p)
  \/ \E u \in Tenants, i \in Ids(debtSeq), b \in PutDebtBodies : PutDebtSelect(p, u, i, b)
  \/ PutDebtUpdate(p)
  \/ PutDebtReread(p)
  \/ \E u \in Tenants, i \in Ids(debtSeq) : DeleteDebt(p, u, i)
  \/ ErrorResponse(p)
  \/ UnhandledRejection(p)

Next == \E p \in Slots : Handlers(p)

Spec == Init /\ [][Next]_vars

\* the SQLite variant with one request at a time: only slot 1 is used, so
\* a request arrives when the one before it is over
SeqNext == Handlers(1)

SpecSeq == Init /\ [][SeqNext]_vars

\* the flat-file variant
SpecFlat == Init /\ [][FlatNext]_vars

\* the SQLite variant with its lists and its clock, one request at a time:
\* records are created, moved to another date and listed
ListNext ==
  \/ Tick
  \/ \E u \in Tenants : ListTx(1, u)
  \/ \E u \in Tenants : ListDebts(1, u)
  \/ \E u \in Tenants :
       PostTxReadSettings(1, u, [date |-> "d1", type |-> "income", category |-> "c1", base |-> 100000])
  \/ PostTxInsert(1)
  \/ PostTxReread(1)
  \/ \E u \in Tenants, i \in Ids(txSeq) : PutTxSelect(1, u, i, [date |-> "d2"])
  \/ PutTxReadSettings(1)
  \/ PutTxUpdate(1)
  \/ PutTxReread(1)
  \/ \E u \in Tenants :
       PostDebtInsert(1, u, [date |-> "d1", employee |-> "A", kind |-> "advance", amount |-> 10000])
  \/ PostDebtReread(1)

SpecList == Init /\ [][ListNext]_vars

\* the rates (percent) a tenant's settings can hold
TaxRates == 0..100

\* the bases (hundredths) whose tax is compared with that of their negation
TaxBases == 0..MaxBase

\* the tax calculation of POST /transactions applied to a base and to its
\* negation: a tenant whose two rates are any r creates a transaction of base
\* b and then the correction of base -b
InitTax ==
  /\ users = [u \in Tenants |-> [email |-> TenantEmail[u], password |-> "pw"]]
  /\ userSeq = Cardinality(Tenants)
  /\ tokens = Tenants
  /\ ticks = {}
  /\ \E r \in TaxRates : settings = [u \in Tenants |-> [tax_income |-> r, tax_expense |-> r]]
  /\ transactions = Empty
  /\ txSeq = 0
  /\ debts = Empty
  /\ debtSeq = 0
  /\ reqs = [p \in Slots |-> Idle]
  /\ issued = 0
  /\ fdb = FlatInitDB
  /\ fuuid = 0
  /\ fresp = [op |-> "none", uid |-> 0, id |-> 0, status |-> "NONE", rows |-> <<>>]

TaxNext ==
  \/ /\ txSeq = 0
     /\ \E b \in TaxBases, ty \in {"income", "expense"} :
          PostTxReadSettings(1, 1, [date |-> "d1", type |-> ty, category |-> "c1", base |-> b])
  \/ /\ txSeq = 1 /\ 1 \in DOMAIN transactions
     /\ PostTxReadSettings(1, 1, [date |-> "d1", type |-> transactions[1].type,
                                  category |-> "c1", base |-> -transactions[1].base])
  \/ PostTxInsert(1)
  \/ PostTxReread(1)

SpecTax == InitTax /\ [][TaxNext]_vars

\* the SQLite variant from an empty database: accounts are registered, log
\* in and create transactions with the token they hold
InitReg ==
  /\ users = Empty
  /\ userSeq = 0
  /\ tokens = {}
  /\ ticks = {}
  /\ settings = Empty
  /\ transactions = Empty
  /\ txSeq = 0
  /\ debts = Empty
  /\ debtSeq = 0
  /\ reqs = [p \in Slots |-> Idle]
  /\ issued = 0
  /\ fdb = FlatInitDB
  /\ fuuid = 0
  /\ fresp = [op |-> "none", uid |-> 0, id |-> 0, status |-> "NONE", rows |-> <<>>]

RegHandlers(p) ==
  \/ \E b \in RegisterBodies : RegisterHash(p, b)
  \/ RegisterInsertUser(p)
  \/ RegisterInsertSettings(p)
  \/ RegisterInsertSettingsFails(p)
  \/ RegisterSelect(p)
  \/ \E b \in LoginBodies : LoginSelect(p, b)
  \/ LoginCompare(p)
  \/ \E u \in tokens :
       PostTxReadSettings(p, u, [date |-> "d1", type |-> "income", category |-> "c1", base |-> 100000])
  \/ PostTxInsert(p)
  \/ PostTxReread(p)
  \/ ErrorResponse(p)
  \/ UnhandledRejection(p)

RegNext == \E p \in Slots : RegHandlers(p)

SpecReg == InitReg /\ [][RegNext]_vars

---------------------------------------------------------------------------
(* Properties *)

\* the columns of transactions a client may set
TxClientFields == {"date", "type", "category", "base"}

\* row carries every field of body
Carries(row, body) == \A k \in DOMAIN body : row[k] = body[k]

\* slot p holds an answered request of kind op
Answered(p, op, status) ==
  /\ reqs[p].op = op
  /\ reqs[p].pc = "done"
  /\ reqs[p].resp.status = status

\* no row of the table has this id and this owner
NotOwned(table, id, uid) == id \notin DOMAIN table \/ table[id].user_id # uid

\* C1: when two PUT /transactions/:id of one tenant on one id, each changing
\* a different client field, have both been answered with success while the
\* other was still in its slot (they overlapped), the stored row carries both
\* changes (which is also the result of either sequential order).
C1_NoLostUpdate ==
  \A p, q \in Slots :
    ( /\ p # q
      /\ Answered(p, "putTx", "OK") /\ Answered(q, "putTx", "OK")
      /\ reqs[p].uid = reqs[q].uid /\ reqs[p].id = reqs[q].id
      /\ DOMAIN reqs[p].body \subseteq TxClientFields
      /\ DOMAIN reqs[q].body \subseteq TxClientFields
      /\ DOMAIN reqs[p].body \cap DOMAIN reqs[q].body = {}
      /\ reqs[p].id \in DOMAIN transactions )
    => /\ Carries(transactions[reqs[p].id], reqs[p].body)
       /\ Carries(transactions[reqs[p].id], reqs[q].body)

\* C2: a PUT /transactions/:id or PUT /debts/:id that arrives for an id that
\* is absent or owned by another tenant is answered NOT_FOUND at once and
\* changes no table, whatever its body.
C2_UpdateTenantIsolation ==
  [][ \A p \in Slots :
        ( /\ Arrive(p)
          /\ \/ reqs'[p].op = "putTx" /\ NotOwned(transactions, reqs'[p].id, reqs'[p].uid)
             \/ reqs'[p].op = "putDebt" /\ NotOwned(debts, reqs'[p].id, reqs'[p].uid) )
        => /\ reqs'[p].pc = "done"
           /\ reqs'[p].resp.status = "NOT_FOUND"
           /\ UNCHANGED <<settings, transactions, txSeq, debts, debtSeq>> ]_vars

\* C2 witness: tenant B's PUT on a transaction owned by tenant A and a PUT on
\* an absent debt id have both been answered NOT_FOUND.
C2_Witness ==
  \E p, q \in Slots :
    /\ Answered(p, "putTx", "NOT_FOUND")
    /\ reqs[p].id \in DOMAIN transactions
    /\ transactions[reqs[p].id].user_id # reqs[p].uid
    /\ "base" \in DOMAIN reqs[p].body
    /\ Answered(q, "putDebt", "NOT_FOUND")
    /\ reqs[q].id \notin DOMAIN debts

C4_FlatTenantIsolation ==
  [][ issued' # issued =>
        LET u == fresp'.uid
        IN  /\ \A i \in 1..Len(fresp'.rows) :
                 Has(fresp'.rows[i], "createdBy") => fresp'.rows[i].createdBy = u
            /\ \A i \in 1..Len(fdb.transactions) :
                 fdb.transactions[i].createdBy # u =>
                   \E j \in 1..Len(fdb'.transactions) :
                     fdb'.transactions[j] = fdb.transactions[i]
            /\ \A i \in 1..Len(fdb.debts) :
                 fdb.debts[i].createdBy # u =>
                   \E j \in 1..Len(fdb'.debts) : fdb'.debts[j] = fdb.debts[i] ]_vars

\* the rates a tenant's settings can hold for a type: the default and the
\* values a PUT /settings can set
RatesOfType(type) ==
  IF type = "income"
  THEN {DefaultTaxIncome} \cup {b.tax_income : b \in {x \in PutSettingsBodies : Has(x, "tax_income")}}
  ELSE {DefaultTaxExpense} \cup {b.tax_expense : b \in {x \in PutSettingsBodies : Has(x, "tax_expense")}}

\* tax and total of the row are the ones computed from its base at a rate of
\* its type
TxIsDerived(row) ==
  \E r \in RatesOfType(row.type) :
    /\ row.tax = CalcTax(row.base, r)
    /\ row.total = CalcTotal(row.base, row.tax)

\* delta of the row is computed from its kind and amount
DebtIsDerived(row) ==
  row.delta = IF row.kind = "advance" THEN row.amount ELSE -row.amount

\* C5: every stored transaction carries the tax and total derived from its
\* own base at a rate of its own type, every stored debt the delta derived
\* from its own kind and amount, and so does every record a PUT returns,
\* also when the body of the PUT supplied tax, total or delta.
C5_AntiTampering ==
  /\ \A i \in DOMAIN transactions : TxIsDerived(transactions[i])
  /\ \A i \in DOMAIN debts : DebtIsDerived(debts[i])
  /\ \A p \in Slots :
       /\ (Answered(p, "putTx", "OK") /\ reqs[p].resp.row # Empty)
            => TxIsDerived(reqs[p].resp.row)
       /\ (Answered(p, "putDebt", "OK") /\ reqs[p].resp.row # Empty)
            => DebtIsDerived(reqs[p].resp.row)

\* C5 witness: a PUT whose body supplied tax and total together with a new
\* type was answered with the stored row, which carries other values.
C5_Witness ==
  \E p \in Slots :
    /\ Answered(p, "putTx", "OK")
    /\ Has(reqs[p].body, "tax") /\ Has(reqs[p].body, "total") /\ Has(reqs[p].body, "type")
    /\ reqs[p].id \in DOMAIN transactions
    /\ reqs[p].resp.row = transactions[reqs[p].id]
    /\ reqs[p].resp.row.type = reqs[p].body.type
    /\ reqs[p].resp.row.tax # reqs[p].body.tax
    /\ reqs[p].resp.row.total # reqs[p].body.total

\* slot p's POST or PUT /transactions commits its row in this step
CommitsTx(p) ==
  /\ reqs[p].op \in {"postTx", "putTx"}
  /\ reqs[p].pc \in {"insert", "update"}
  /\ reqs'[p].pc = "reread"
  /\ reqs'[p].id \in DOMAIN transactions'
  /\ reqs[p].uid \in DOMAIN settings

\* C6 as claimed: the row a POST or PUT /transactions commits carries the tax
\* and total computed at the rate the tenant's settings hold at that commit.
C6_TaxAtCommitRate ==
  [][ \A p \in Slots :
        CommitsTx(p) =>
          LET row == transactions'[reqs'[p].id]
          IN  /\ row.tax = CalcTax(row.base, RateOf(row.type, settings[reqs[p].uid]))
              /\ row.total = CalcTotal(row.base, row.tax) ]_vars

\* C7 (one request at a time): after a create, and after an update that
\* sets base and does not name type, the stored row has tax =
\* round(base * r / 100) and total = round(base + tax) for the rate r the
\* tenant's settings hold now for the row's type, and the answer is that row;
\* base 1000.00 at 15 gives 150.00 / 1150.00, base 2000.00 gives 300.00 / 2300.00.
C7_UpdateUsesCurrentRate ==
  \A p \in Slots :
    ( \/ Answered(p, "postTx", "OK")
      \/ ( /\ Answered(p, "putTx", "OK")
           /\ Has(reqs[p].body, "base") /\ ~Has(reqs[p].body, "type") ) )
    => /\ reqs[p].id \in DOMAIN transactions
       /\ LET row == transactions[reqs[p].id]
              r == RateOf(row.type, settings[reqs[p].uid])
          IN  /\ row.base = reqs[p].body.base
              /\ row.tax = CalcTax(row.base, r)
              /\ row.total = CalcTotal(row.base, row.tax)
              /\ reqs[p].resp.row = row
              /\ (row.base = 100000 /\ r = 15) => (row.tax = 15000 /\ row.total = 115000)
              /\ (row.base = 200000 /\ r = 15) => (row.tax = 30000 /\ row.total = 230000)

\* C7 witness: the tenant's income rate was changed to 10 after the create
\* at 15, and the update of base to 2000.00 stored 200.00 / 2200.00.
C7_Witness ==
  \E p \in Slots :
    /\ Answered(p, "putTx", "OK")
    /\ reqs[p].body = [base |-> 200000]
    /\ settings[reqs[p].uid].tax_income = 10
    /\ reqs[p].id \in DOMAIN transactions
    /\ transactions[reqs[p].id].type = "income"
    /\ transactions[reqs[p].id].tax = 20000
    /\ transactions[reqs[p].id].total = 220000

\* C8: every stored debt has kind advance or repay, and delta = +amount for
\* advance, -amount for repay.
C8_DebtDeltaInvariant ==
  \A i \in DOMAIN debts :
    /\ debts[i].kind \in {"advance", "repay"}
    /\ debts[i].kind = "advance" => debts[i].delta = debts[i].amount
    /\ debts[i].kind = "repay" => debts[i].delta = -debts[i].amount

\* C8 witness: an update that changed only kind, to repay, left a debt of a
\* positive amount with the negative delta.
C8_Witness ==
  \E p \in Slots :
    /\ Answered(p, "putDebt", "OK")
    /\ reqs[p].body = [kind |-> "repay"]
    /\ reqs[p].id \in DOMAIN debts
    /\ debts[reqs[p].id].kind = "repay"
    /\ debts[reqs[p].id].amount > 0
    /\ debts[reqs[p].id].delta = -debts[reqs[p].id].amount

\* the create request in slot p lacks a required field or names a type or
\* kind outside the enumeration
InvalidCreate(p) ==
  LET b == reqs[p].body
  IN  \/ /\ reqs[p].op = "postTx"
         /\ \/ \E k \in {"date", "type", "category"} : FalsyText(b, k)
            \/ ~Has(b, "base")
            \/ b.type \notin {"income", "expense"}
      \/ /\ reqs[p].op = "postDebt"
         /\ \/ \E k \in {"date", "employee", "kind"} : FalsyText(b, k)
            \/ ~Has(b, "amount")
            \/ b.kind \notin {"advance", "repay"}

\* C9 as claimed: an invalid create request is answered with a typed failure
\* by the handler's validation; it never gets as far as a store call.
C9_ValidationBeforeWrite ==
  \A p \in Slots :
    InvalidCreate(p) =>
      /\ reqs[p].pc = "done"
      /\ reqs[p].resp.status \in {"MISSING_FIELD", "INVALID_TYPE", "INVALID_KIND"}

\* C10 as claimed: no request whose store call rejected is left without an
\* answer.
C10_NoRequestLeftUnanswered ==
  \A p \in Slots : reqs[p].pc # "hung"

\* the settings GET /settings returns to tenant v from document db (flat-file
\* variant, line 378)
FlatSettingsOf(db, v) == db.settings

\* C11 as claimed (flat-file variant): a PUT /settings of tenant u removes no
\* field of the settings and leaves the settings every other tenant reads as
\* they were.
C11_FlatSettingsPartialUpdate ==
  [][ (issued' # issued /\ fresp'.op = "putSettings") =>
        /\ DOMAIN FlatSettingsOf(fdb, fresp'.uid) \subseteq DOMAIN FlatSettingsOf(fdb', fresp'.uid)
        /\ \A v \in Tenants \ {fresp'.uid} :
             FlatSettingsOf(fdb', v) = FlatSettingsOf(fdb, v) ]_vars

\* C12 as claimed: every row of users has its row of settings, in every
\* state, also between the steps of a registration and after one that failed.
C12_SettingsNeverMissing ==
  \A u \in DOMAIN users : u \in DOMAIN settings

\* the debts of document db that tenant u created
FlatDebtsOf(db, u) ==
  LET Mine(d) == d.createdBy = u
  IN  SelectSeq(db.debts, Mine)

\* the amount of a flat-file debt: what an advance adds, what a repayment
\* takes off
FlatAmount(d) == IF d.kind = "advance" THEN d.plus ELSE d.minus

\* the sum of the amounts of the debts of ds with employee key k and this kind
RECURSIVE SumAmount(_, _, _)
SumAmount(ds, k, kind) ==
  IF ds = <<>> THEN 0
  ELSE (IF BalanceKey(Head(ds)) = k /\ Head(ds).kind = kind THEN FlatAmount(Head(ds)) ELSE 0)
       + SumAmount(Tail(ds), k, kind)

\* C13 as claimed (flat-file variant): the answer of GET /debts/balances to
\* tenant u has exactly one entry per employee key of u's debts, with
\* advances = the sum of the amounts of that employee's advances, repayments =
\* the sum of the amounts of the repayments, and balance = their difference.
C13_BalanceAggregation ==
  fresp.op = "balances" =>
    LET ds == FlatDebtsOf(fdb, fresp.uid)
        keys == {BalanceKey(ds[i]) : i \in 1..Len(ds)}
        rows == fresp.rows
    IN  /\ {rows[i].employee : i \in 1..Len(rows)} = keys
        /\ Len(rows) = Cardinality(keys)
        /\ \A i \in 1..Len(rows) :
             /\ rows[i].advances = SumAmount(ds, rows[i].employee, "advance")
             /\ rows[i].repays = SumAmount(ds, rows[i].employee, "repay")
             /\ rows[i].balance = rows[i].advances - rows[i].repays

\* no two records of the collection share an id
UniqueIds(seq) ==
  \A i, j \in 1..Len(seq) : seq[i].id = seq[j].id => i = j

\* C14 as claimed (flat-file variant): after every request no two
\* transactions and no two debts share an id, a new record gets an id never
\* given before, and an update leaves the id and the owner of its record as
\* they were, whatever the body contains.
C14_FlatIdentityImmutable ==
  [][ issued' # issued =>
        /\ UniqueIds(fdb'.transactions)
        /\ UniqueIds(fdb'.debts)
        /\ (fresp'.op \in {"postTx", "postDebt"} /\ fresp'.status = "OK")
             => fresp'.id \notin 1..fuuid
        /\ (fresp'.op = "putTx" /\ fresp'.status = "OK") =>
             LET idx == FindIndex(fdb.transactions, fresp'.id)
             IN  /\ fdb'.transactions[idx].id = fdb.transactions[idx].id
                 /\ fdb'.transactions[idx].createdBy = fdb.transactions[idx].createdBy
        /\ (fresp'.op = "putDebt" /\ fresp'.status = "OK") =>
             LET idx == FindIndex(fdb.debts, fresp'.id)
             IN  /\ fdb'.debts[idx].id = fdb.debts[idx].id
                 /\ fdb'.debts[idx].createdBy = fdb.debts[idx].createdBy ]_vars

\* C15 as claimed: the answer of GET /transactions lists the tenant's rows by
\* date descending and, among equal dates, the row created later first (ids
\* are given in the order of creation); the answer of GET /debts lists them
\* by date ascending and, among equal dates, the row created earlier first.
C15_DefaultListOrder ==
  \A p \in Slots :
    /\ Answered(p, "listTx", "OK") =>
         LET s == reqs[p].resp.row
         IN  \A i, j \in 1..Len(s) : i < j =>
               \/ DateRank(transactions[s[i]].date) > DateRank(transactions[s[j]].date)
               \/ /\ DateRank(transactions[s[i]].date) = DateRank(transactions[s[j]].date)
                  /\ s[i] > s[j]
    /\ Answered(p, "listDebts", "OK") =>
         LET s == reqs[p].resp.row
         IN  \A i, j \in 1..Len(s) : i < j =>
               \/ DateRank(debts[s[i]].date) < DateRank(debts[s[j]].date)
               \/ /\ DateRank(debts[s[i]].date) = DateRank(debts[s[j]].date)
                  /\ s[i] < s[j]

\* record new is record old with the fields of one of the bodies set, the
\* derived fields recomputed and every other field as it was
ChangedByBody(old, new, bodies, derived) ==
  \E b \in bodies :
    /\ Carries(new, b)
    /\ \A k \in DOMAIN old \ (DOMAIN b \cup derived) : new[k] = old[k]

\* collection new is collection old after the request just answered: a create
\* appended its row, an update changed the fields of its body in its record,
\* a delete removed the records of its id, and every other record is as it
\* was, in its place
AppliedTo(old, new, post, put, delete, bodies, derived) ==
  LET idx == FindIndex(old, fresp'.id)
      Keep(x) == x.id # fresp'.id
  IN  IF fresp'.status # "OK" THEN new = old
      ELSE IF fresp'.op = post THEN new = Append(old, fresp'.rows[1])
      ELSE IF fresp'.op = put
      THEN /\ Len(new) = Len(old)
           /\ \A i \in 1..Len(old) : i # idx => new[i] = old[i]
           /\ ChangedByBody(old[idx], new[idx], bodies, derived)
      ELSE IF fresp'.op = delete THEN new = SelectSeq(old, Keep)
      ELSE new = old

C17_TaxSignPropagation ==
  ( /\ 1 \in DOMAIN transactions /\ 2 \in DOMAIN transactions
    /\ transactions[2].base = -transactions[1].base
    /\ transactions[2].type = transactions[1].type )
  => /\ transactions[2].tax = -transactions[1].tax
     /\ transactions[2].total = -transactions[1].total

\* slot p's PUT is answered in this step (its final re-read, lines 159-160
\* and 189-190)
PutAnswers(p) ==
  /\ reqs[p].op \in {"putTx", "putDebt"}
  /\ reqs[p].pc = "reread"
  /\ reqs'[p].pc = "done"

\* the row the PUT in slot p bound to its UPDATE
PutWritten(p) ==
  LET v == reqs[p].vals
  IN  IF reqs[p].op = "putTx"
      THEN TxRow(reqs[p].uid, v, v.base, v.tax, v.total)
      ELSE DebtRow(reqs[p].uid, v, v.amount, v.delta)

\* C18 as claimed: the row a PUT /transactions/:id or PUT /debts/:id answers
\* with is the row this request wrote, in every interleaving; the answer is
\* never an absent record or a row holding another request's values.
C18_PutReturnsOwnWrite ==
  [][ \A p \in Slots :
        PutAnswers(p) =>
          /\ reqs'[p].resp.row # Empty
          /\ reqs'[p].resp.row = PutWritten(p) ]_vars

\* C19: an id that was given to a transaction or a debt and whose row is gone
\* (removed by a DELETE of its owner) has no row in any later state, whatever
\* the requests in flight still do; a PUT that passed its existence check
\* before the DELETE writes to no row.
C19_DeletedNeverReappears ==
  [][ /\ \A i \in 1..txSeq : i \notin DOMAIN transactions => i \notin DOMAIN transactions'
      /\ \A i \in 1..debtSeq : i \notin DOMAIN debts => i \notin DOMAIN debts' ]_vars

\* C19 witness: a DELETE of the owner has removed a transaction and was
\* answered while a PUT of the same tenant on the same id, which had found the
\* row, still holds its UPDATE.
C19_Witness ==
  \E p, q \in Slots :
    /\ reqs[p].op = "putTx" /\ reqs[p].pc = "update"
    /\ Answered(q, "deleteTx", "OK")
    /\ reqs[q].id = reqs[p].id /\ reqs[q].uid = reqs[p].uid
    /\ reqs[p].id \in 1..txSeq
    /\ reqs[p].id \notin DOMAIN transactions

=============================================================================
